---- MODULE Spec2Model ----
(***************************************************************************)
(* A model of FileProcessor ("File Handling/file_processor.py"): the       *)
(* extension dispatch of process_file, the per-type processors with their  *)
(* analyzers and renderers, the output writers, the processing history     *)
(* and generate_summary_report.                                            *)
(*                                                                         *)
(* A Python str is a sequence of one-character strings.  A file is opened  *)
(* in text mode with universal newlines, so the only line terminator a     *)
(* content holds is "\n".  The fixed words of a rendered template are left *)
(* out of a rendered document; its slots (every value an f-string          *)
(* interpolates) are kept, as the fields of a record.                      *)
(***************************************************************************)
EXTENDS Integers, Sequences, FiniteSets, TLC

VARIABLES processed_files, disk, result, report, clock, call

vars == <<processed_files, disk, result, report, clock, call>>

(***************************************************************************)
(* Bounds of the model.                                                    *)
(***************************************************************************)
MaxCalls == 3
MaxCsvLen == 5
MaxMdLen == 5
MaxJsonWidth == 2
MaxPyTokens == 5

(***************************************************************************)
(* Python's None.                                                          *)
(***************************************************************************)
None == [none |-> TRUE]

(***************************************************************************)
(* str methods.                                                            *)
(***************************************************************************)
Whitespace == {" ", "\n", "\t"}

UpperCase == <<"A","B","C","D","E","F","G","H","I","J","K","L","M",
               "N","O","P","Q","R","S","T","U","V","W","X","Y","Z">>
LowerCase == <<"a","b","c","d","e","f","g","h","i","j","k","l","m",
               "n","o","p","q","r","s","t","u","v","w","x","y","z">>

lower_char(c) ==
  IF \E i \in 1..Len(UpperCase) : UpperCase[i] = c
  THEN LowerCase[CHOOSE i \in 1..Len(UpperCase) : UpperCase[i] = c]
  ELSE c

lower(s) == [i \in 1..Len(s) |-> lower_char(s[i])]

RECURSIVE lstrip(_, _)
lstrip(s, chars) ==
  IF s # <<>> /\ Head(s) \in chars THEN lstrip(Tail(s), chars) ELSE s

RECURSIVE rstrip(_, _)
rstrip(s, chars) ==
  IF s # <<>> /\ s[Len(s)] \in chars
  THEN rstrip(SubSeq(s, 1, Len(s) - 1), chars)
  ELSE s

strip(s, chars) == rstrip(lstrip(s, chars), chars)

startswith(s, prefix) ==
  Len(s) >= Len(prefix) /\ SubSeq(s, 1, Len(prefix)) = prefix

\* str.count: the number of non-overlapping occurrences, scanning from the left
RECURSIVE count_from(_, _, _)
count_from(s, sub, i) ==
  IF i + Len(sub) - 1 > Len(s) THEN 0
  ELSE IF SubSeq(s, i, i + Len(sub) - 1) = sub
       THEN 1 + count_from(s, sub, i + Len(sub))
       ELSE count_from(s, sub, i + 1)

count(s, sub) == count_from(s, sub, 1)

\* str.splitlines: no trailing empty line for a final terminating newline
RECURSIVE splitlines_from(_, _, _, _)
splitlines_from(s, i, cur, acc) ==
  IF i > Len(s) THEN (IF cur = <<>> THEN acc ELSE Append(acc, cur))
  ELSE IF s[i] = "\n" THEN splitlines_from(s, i + 1, <<>>, Append(acc, cur))
  ELSE splitlines_from(s, i + 1, Append(cur, s[i]), acc)

splitlines(s) == splitlines_from(s, 1, <<>>, <<>>)

\* str.split(): the maximal runs of non-whitespace characters
RECURSIVE split_from(_, _, _, _)
split_from(s, i, cur, acc) ==
  IF i > Len(s) THEN (IF cur = <<>> THEN acc ELSE Append(acc, cur))
  ELSE IF s[i] \in Whitespace
       THEN split_from(s, i + 1, <<>>, IF cur = <<>> THEN acc ELSE Append(acc, cur))
       ELSE split_from(s, i + 1, Append(cur, s[i]), acc)

split(s) == split_from(s, 1, <<>>, <<>>)

\* s * n for a str s: the empty str when n <= 0
RECURSIVE repeat(_, _)
repeat(s, n) == IF n <= 0 THEN <<>> ELSE s \o repeat(s, n - 1)

larger(a, b) == IF a > b THEN a ELSE b

\* max(len(line) for line in lines)
RECURSIVE max_len(_)
max_len(lines) ==
  IF lines = <<>> THEN 0 ELSE larger(Len(Head(lines)), max_len(Tail(lines)))

\* a float quotient, kept exact as the pair it was computed from
Quotient(n, d) == [num |-> n, den |-> d]

\* format(x, ".<digits>f") of a non-negative quotient scaled by `scale`:
\* the nearest multiple of 10^-digits, in units of 10^-digits
RECURSIVE pow10(_)
pow10(n) == IF n = 0 THEN 1 ELSE 10 * pow10(n - 1)

format_f(q, scale, digits) ==
  (2 * q.num * scale * pow10(digits) + q.den) \div (2 * q.den)

(***************************************************************************)
(* pathlib.Path(filename): name, suffix and stem of the final component.   *)
(***************************************************************************)
RECURSIVE last_index(_, _, _)
last_index(s, c, i) ==
  IF i = 0 THEN 0 ELSE IF s[i] = c THEN i ELSE last_index(s, c, i - 1)

path_name(filename) ==
  SubSeq(filename, last_index(filename, "/", Len(filename)) + 1, Len(filename))

\* the suffix and the stem of a final component, i the index of its last "."
suffix_at(name, i) ==
  IF 1 < i /\ i < Len(name) THEN SubSeq(name, i, Len(name)) ELSE <<>>

stem_at(name, i) ==
  IF 1 < i /\ i < Len(name) THEN SubSeq(name, 1, i - 1) ELSE name

path_suffix(filename) ==
  suffix_at(path_name(filename), last_index(path_name(filename), ".",
                                            Len(path_name(filename))))

path_stem(filename) ==
  stem_at(path_name(filename), last_index(path_name(filename), ".",
                                          Len(path_name(filename))))

(***************************************************************************)
(* Exceptions.  A processor either returns or raises; every exception the  *)
(* model raises is a subclass of Exception.                                *)
(***************************************************************************)
Exceptions == {"FileNotFoundError", "IsADirectoryError", "PermissionError",
               "UnicodeDecodeError", "OSError", "JSONDecodeError", "csv.Error",
               "ZeroDivisionError"}

Raise(e) == [raised |-> e, value |-> None, wrote |-> None]

Return(v, w) == [raised |-> "", value |-> v, wrote |-> w]

\* open(filename, 'r', encoding='utf-8') followed by file.read()
read_error(f) ==
  CASE f.status = "unreadable"  -> "PermissionError"
    [] f.status = "undecodable" -> "UnicodeDecodeError"
    [] f.status = "ioerror"     -> "OSError"
    [] OTHER                    -> ""

(***************************************************************************)
(* The writers.  `writable` says whether opening the output file for       *)
(* writing succeeds; when it fails the writer catches the error, writes    *)
(* nothing and returns None.                                               *)
(***************************************************************************)
Written(name, content) == [name |-> name, content |-> content]

\* open(output_filename, 'w') and the write, inside the writer's try
written_as(output_filename, content, writable) ==
  IF writable
  THEN [output_file |-> output_filename, wrote |-> Written(output_filename, content)]
  ELSE [output_file |-> None, wrote |-> None]

write_output_file(original_filename, content, suffix, writable) ==
  written_as(path_stem(original_filename) \o suffix \o path_suffix(original_filename),
             content, writable)

\* return {'analysis': analysis, 'output_file': output_file}, w what the writer did
returned(analysis, w) ==
  Return([analysis |-> analysis, output_file |-> w.output_file], w.wrote)

(***************************************************************************)
(* Plain text.                                                             *)
(***************************************************************************)
text_stats(content, lines, words) ==
  [type |-> "text",
   lines |-> Len(lines),
   words |-> Len(words),
   characters |-> Len(content),
   longest_line |-> IF lines # <<>> THEN max_len(lines) ELSE 0,
   average_words_per_line |->
     IF lines # <<>> THEN Quotient(Len(words), Len(lines)) ELSE Quotient(0, 1)]

text_analysis(content) == text_stats(content, splitlines(content), split(content))

text_report(filename, content, analysis, now, lines) ==
  [template |-> "TEXT FILE ANALYSIS REPORT",
   file |-> filename,
   generated |-> now,
   total_lines |-> analysis.lines,
   total_words |-> analysis.words,
   total_characters |-> analysis.characters,
   longest_line |-> analysis.longest_line,
   average_words_per_line |-> format_f(analysis.average_words_per_line, 1, 2),
   original_content |-> content,
   line_by_line |->
     [i \in 1..Len(lines) |->
        [line |-> i, words |-> Len(split(lines[i])),
         chars |-> Len(lines[i]), text |-> lines[i]]]]

create_text_analysis_report(filename, content, analysis, now) ==
  text_report(filename, content, analysis, now, splitlines(content))

\* the report of the analysis, written to <stem>_analyzed<suffix>
text_output(f, writable, now, analysis) ==
  returned(analysis,
           write_output_file(
             f.filename,
             create_text_analysis_report(f.filename, f.content, analysis, now),
             <<"_","a","n","a","l","y","z","e","d">>, writable))

process_text_file(f, writable, now) ==
  IF read_error(f) # "" THEN Raise(read_error(f))
  ELSE text_output(f, writable, now, text_analysis(f.content))

(***************************************************************************)
(* CSV.  csv.reader over the lines of the file, for contents that hold no  *)
(* quote character: a line is cut at every ",", and an empty line is the   *)
(* empty row.                                                              *)
(***************************************************************************)
RECURSIVE csv_fields(_, _, _, _)
csv_fields(line, i, cur, acc) ==
  IF i > Len(line) THEN Append(acc, cur)
  ELSE IF line[i] = "," THEN csv_fields(line, i + 1, <<>>, Append(acc, cur))
  ELSE csv_fields(line, i + 1, Append(cur, line[i]), acc)

csv_row(line) == IF line = <<>> THEN <<>> ELSE csv_fields(line, 1, <<>>, <<>>)

csv_rows(lines) == [i \in 1..Len(lines) |-> csv_row(lines[i])]

csv_reader(content) == csv_rows(splitlines(content))

RECURSIVE populated_cells(_)
populated_cells(rows) ==
  IF rows = <<>> THEN 0 ELSE Len(Head(rows)) + populated_cells(Tail(rows))

\* total_cells as the number of cells the rows hold
csv_analysis_counting_cells(headers, rows) ==
  [type |-> "csv",
   columns |-> Len(headers),
   rows |-> Len(rows),
   headers |-> headers,
   total_cells |-> populated_cells(rows)]

csv_analysis(headers, rows) ==
  [type |-> "csv",
   columns |-> Len(headers),
   rows |-> Len(rows),
   headers |-> headers,
   total_cells |-> Len(headers) * Len(rows)]

non_empty_cell(cell) == strip(cell, Whitespace) # <<>>

\* row[i] if i < len(row) else '', for every row
column_data(rows, i) ==
  [r \in 1..Len(rows) |-> IF i <= Len(rows[r]) THEN rows[r][i] ELSE <<>>]

enhanced_csv_document(filename, headers, rows, analysis, now) ==
  [template |-> "Enhanced CSV File",
   original |-> filename,
   processed |-> now,
   columns |-> analysis.columns,
   rows |-> analysis.rows,
   data |-> <<headers>> \o rows,
   column_statistics |->
     [i \in 1..Len(headers) |->
        [column |-> headers[i],
         non_empty |-> Len(SelectSeq(column_data(rows, i), non_empty_cell))]]]

create_enhanced_csv(filename, headers, rows, analysis, writable, now) ==
  written_as(path_stem(filename) \o <<"_","e","n","h","a","n","c","e","d",".","c","s","v">>,
             enhanced_csv_document(filename, headers, rows, analysis, now),
             writable)

csv_enhanced(f, writable, now, headers, rows, analysis) ==
  returned(analysis,
           create_enhanced_csv(f.filename, headers, rows, analysis, writable, now))

\* next(csv_reader, None) is None for no row and [] for an empty first line
csv_parsed(f, writable, now, all_rows) ==
  IF all_rows = <<>> \/ Head(all_rows) = <<>>
  THEN Raise("csv.Error")
  ELSE csv_enhanced(f, writable, now, Head(all_rows), Tail(all_rows),
                    csv_analysis(Head(all_rows), Tail(all_rows)))

\* the enhanced file written for whatever was read, the header test made after it
csv_parsed_checking_late(f, writable, now, headers, rows) ==
  IF headers = <<>>
  THEN [raised |-> "csv.Error", value |-> None,
        wrote |-> create_enhanced_csv(f.filename, headers, rows,
                                      csv_analysis(headers, rows), writable, now).wrote]
  ELSE csv_enhanced(f, writable, now, headers, rows, csv_analysis(headers, rows))

process_csv_file_checking_late(f, writable, now) ==
  IF read_error(f) # "" THEN Raise(read_error(f))
  ELSE IF csv_reader(f.content) = <<>>
  THEN csv_parsed_checking_late(f, writable, now, <<>>, <<>>)
  ELSE csv_parsed_checking_late(f, writable, now, Head(csv_reader(f.content)),
                                Tail(csv_reader(f.content)))

process_csv_file(f, writable, now) ==
  IF read_error(f) # "" THEN Raise(read_error(f))
  ELSE csv_parsed(f, writable, now, csv_reader(f.content))

(***************************************************************************)
(* Python source.                                                          *)
(***************************************************************************)
Hash == <<"#">>
ImportKw == <<"i","m","p","o","r","t"," ">>
FromKw == <<"f","r","o","m"," ">>
DefKw == <<"d","e","f"," ">>
ClassKw == <<"c","l","a","s","s"," ">>

\* the code-line test made on the line as it is, not on the trimmed line
is_code_line_untrimmed(line) == line # <<>> /\ ~startswith(line, Hash)

is_code_line(line) ==
  strip(line, Whitespace) # <<>> /\ ~startswith(strip(line, Whitespace), Hash)

is_comment_line(line) == startswith(strip(line, Whitespace), Hash)

is_blank_line(line) == strip(line, Whitespace) = <<>>

is_import_line(line) ==
  \/ startswith(strip(line, Whitespace), ImportKw)
  \/ startswith(strip(line, Whitespace), FromKw)

python_stats(content, lines) ==
  [type |-> "python",
   total_lines |-> Len(lines),
   code_lines |-> Len(SelectSeq(lines, is_code_line)),
   comment_lines |-> Len(SelectSeq(lines, is_comment_line)),
   blank_lines |-> Len(SelectSeq(lines, is_blank_line)),
   imports |-> Len(SelectSeq(lines, is_import_line)),
   functions |-> count(content, DefKw),
   classes |-> count(content, ClassKw)]

python_analysis(content) == python_stats(content, splitlines(content))

\* the f-string divides by analysis['total_lines'] with no guard
create_python_documentation(filename, content, analysis, now) ==
  IF analysis.total_lines = 0 THEN Raise("ZeroDivisionError")
  ELSE Return(
         [template |-> "PYTHON FILE ANALYSIS AND DOCUMENTATION",
          original_file |-> filename,
          generated |-> now,
          total_lines |-> analysis.total_lines,
          code_lines |-> analysis.code_lines,
          comment_lines |-> analysis.comment_lines,
          blank_lines |-> analysis.blank_lines,
          imports |-> analysis.imports,
          functions |-> analysis.functions,
          classes |-> analysis.classes,
          comment_ratio |->
            format_f(Quotient(analysis.comment_lines, analysis.total_lines), 100, 1),
          code_density |->
            format_f(Quotient(analysis.code_lines, analysis.total_lines), 100, 1),
          content |-> content],
         None)

\* documented is what create_python_documentation returned or raised
python_documented(f, writable, analysis, documented) ==
  IF documented.raised # "" THEN Raise(documented.raised)
  ELSE returned(analysis,
                write_output_file(f.filename, documented.value, <<"_","d","o","c","u","m","e","n","t","e","d">>, writable))

python_analyzed(f, writable, now, analysis) ==
  python_documented(f, writable, analysis,
                    create_python_documentation(f.filename, f.content, analysis, now))

process_python_file(f, writable, now) ==
  IF read_error(f) # "" THEN Raise(read_error(f))
  ELSE python_analyzed(f, writable, now, python_analysis(f.content))

(***************************************************************************)
(* Markdown.                                                               *)
(***************************************************************************)
is_header_line(line) == startswith(strip(line, Whitespace), Hash)

\* the grave accent, which a TLA+ string cannot hold: this symbol stands for it
Backtick == "GRAVE ACCENT"

markdown_stats(content, lines) ==
  [type |-> "markdown",
   total_lines |-> Len(lines),
   headers |-> Len(SelectSeq(lines, is_header_line)),
   links |-> count(content, <<"[">>),
   images |-> count(content, <<"!","[">>),
   code_blocks |-> count(content, <<Backtick, Backtick, Backtick>>),
   bold_text |-> count(content, <<"*","*">>),
   italic_text |-> count(content, <<"*">>) - count(content, <<"*","*">>) * 2]

markdown_analysis(content) == markdown_stats(content, splitlines(content))

\* (level, title) of a line the scan takes for a header
toc_header(line) ==
  [level |-> Len(line) - Len(lstrip(line, {"#"})),
   title |-> strip(strip(line, {"#"}), Whitespace)]

\* one line of the table of contents, without its "\n"
toc_entry(h) == repeat(<<" "," ">>, h.level - 1) \o <<"-"," ">> \o h.title

\* headers: the (level, title) of every line of `lines`
toc_headers(lines) == [i \in 1..Len(lines) |-> toc_header(lines[i])]

\* toc: one line per header
toc_lines(headers) == [i \in 1..Len(headers) |-> toc_entry(headers[i])]

markdown_document(filename, content, analysis, now, toc) ==
  [template |-> "Enhanced Markdown Document",
   original_file |-> filename,
   enhanced |-> now,
   total_lines |-> analysis.total_lines,
   headers |-> analysis.headers,
   links |-> analysis.links,
   images |-> analysis.images,
   code_blocks |-> analysis.code_blocks,
   bold_text |-> analysis.bold_text,
   italic_text |-> analysis.italic_text,
   toc |-> toc,
   content |-> content]

create_enhanced_markdown(filename, content, analysis, now) ==
  markdown_document(
    filename, content, analysis, now,
    toc_lines(toc_headers(SelectSeq(splitlines(content), is_header_line))))

markdown_output(f, writable, now, analysis) ==
  returned(analysis,
           write_output_file(
             f.filename,
             create_enhanced_markdown(f.filename, f.content, analysis, now),
             <<"_","e","n","h","a","n","c","e","d">>, writable))

process_markdown_file(f, writable, now) ==
  IF read_error(f) # "" THEN Raise(read_error(f))
  ELSE markdown_output(f, writable, now, markdown_analysis(f.content))

(***************************************************************************)
(* JSON values, as json.load builds them.  k is type(value).__name__; a    *)
(* dict keeps its keys in insertion order.  Numbers are ints.              *)
(***************************************************************************)
JNull == [k |-> "NoneType"]
JBool(b) == [k |-> "bool", b |-> b]
JInt(n) == [k |-> "int", n |-> n]
JStr(s) == [k |-> "str", s |-> s]
JList(items) == [k |-> "list", items |-> items]
JDict(keys, vals) == [k |-> "dict", keys |-> keys, vals |-> vals]

\* d[key] = val on a dict: a key already present keeps its place
dict_set(d, key, val) ==
  IF \E i \in 1..Len(d.keys) : d.keys[i] = key
  THEN JDict(d.keys, [i \in 1..Len(d.keys) |->
                        IF d.keys[i] = key THEN val ELSE d.vals[i]])
  ELSE JDict(Append(d.keys, key), Append(d.vals, val))

dict_get(d, key) == d.vals[CHOOSE i \in 1..Len(d.keys) : d.keys[i] = key]

Digits == <<"0","1","2","3","4","5","6","7","8","9">>

RECURSIVE nat_to_str(_)
nat_to_str(n) ==
  IF n < 10 THEN <<Digits[n + 1]>>
  ELSE nat_to_str(n \div 10) \o <<Digits[(n % 10) + 1]>>

\* str(n) of an int
int_to_str(n) == IF n < 0 THEN <<"-">> \o nat_to_str(0 - n) ELSE nat_to_str(n)

\* datetime.isoformat() of the clock reading t: a str that names t
isoformat(t) == <<"T">> \o nat_to_str(t)

(***************************************************************************)
(* json.dump(data, file, indent=2, ensure_ascii=False).                    *)
(***************************************************************************)
Quote == "\""
Backslash == "\\"

encode_char(c) ==
  CASE c = Quote     -> <<Backslash, Quote>>
    [] c = Backslash -> <<Backslash, Backslash>>
    [] c = "\n"      -> <<Backslash, "n">>
    [] c = "\r"      -> <<Backslash, "r">>
    [] c = "\t"      -> <<Backslash, "t">>
    [] OTHER         -> <<c>>

RECURSIVE encode_chars(_)
encode_chars(s) ==
  IF s = <<>> THEN <<>> ELSE encode_char(Head(s)) \o encode_chars(Tail(s))

encode_str(s) == <<Quote>> \o encode_chars(s) \o <<Quote>>

JsonIndent == 2

newline_indent(level) == <<"\n">> \o repeat(<<" ">>, JsonIndent * level)

RECURSIVE json_dumps(_, _)
RECURSIVE dump_items(_, _, _)
RECURSIVE dump_pairs(_, _, _)

\* the items of a list from index i on, each on its own line
dump_items(items, i, level) ==
  IF i > Len(items) THEN <<>>
  ELSE (IF i > 1 THEN <<",">> ELSE <<>>)
       \o newline_indent(level) \o json_dumps(items[i], level)
       \o dump_items(items, i + 1, level)

dump_pairs(d, i, level) ==
  IF i > Len(d.keys) THEN <<>>
  ELSE (IF i > 1 THEN <<",">> ELSE <<>>)
       \o newline_indent(level) \o encode_str(d.keys[i]) \o <<":", " ">>
       \o json_dumps(d.vals[i], level)
       \o dump_pairs(d, i + 1, level)

json_dumps(v, level) ==
  CASE v.k = "NoneType" -> <<"n","u","l","l">>
    [] v.k = "bool" -> IF v.b THEN <<"t","r","u","e">> ELSE <<"f","a","l","s","e">>
    [] v.k = "int"  -> int_to_str(v.n)
    [] v.k = "str"  -> encode_str(v.s)
    [] v.k = "list" ->
         IF v.items = <<>> THEN <<"[", "]">>
         ELSE <<"[">> \o dump_items(v.items, 1, level + 1)
              \o newline_indent(level) \o <<"]">>
    [] v.k = "dict" ->
         IF v.keys = <<>> THEN <<"{", "}">>
         ELSE <<"{">> \o dump_pairs(v, 1, level + 1)
              \o newline_indent(level) \o <<"}">>

json_dump(data) == json_dumps(data, 0)

(***************************************************************************)
(* json.load: a value with optional whitespace around it, or a             *)
(* JSONDecodeError.  A parse step yields [ok, val, pos], pos the index     *)
(* after what it read.  Of the escapes, \b, \f and \uXXXX are left out.    *)
(***************************************************************************)
JsonWhitespace == {" ", "\t", "\n", "\r"}

ParseFail == [ok |-> FALSE, val |-> None, pos |-> 0]

Parsed(v, p) == [ok |-> TRUE, val |-> v, pos |-> p]

RECURSIVE skip_whitespace(_, _)
skip_whitespace(s, i) ==
  IF i <= Len(s) /\ s[i] \in JsonWhitespace THEN skip_whitespace(s, i + 1) ELSE i

digit_value(c) == (CHOOSE i \in 1..10 : Digits[i] = c) - 1

is_digit(c) == \E i \in 1..10 : Digits[i] = c

RECURSIVE scan_digits(_, _, _)
scan_digits(s, i, acc) ==
  IF i <= Len(s) /\ is_digit(s[i])
  THEN scan_digits(s, i + 1, 10 * acc + digit_value(s[i]))
  ELSE [n |-> acc, pos |-> i]

number_value(negative, d) ==
  Parsed(JInt(IF negative THEN 0 - d.n ELSE d.n), d.pos)

\* the digits of a number, j at the first of them
number_at(s, negative, j) ==
  IF j > Len(s) \/ ~is_digit(s[j]) THEN ParseFail
  ELSE IF s[j] = "0" THEN Parsed(JInt(0), j + 1)
  ELSE number_value(negative, scan_digits(s, j, 0))

\* -?(0|[1-9][0-9]*)
scan_number(s, i) ==
  IF s[i] = "-" THEN number_at(s, TRUE, i + 1) ELSE number_at(s, FALSE, i)

unescape_char(c) ==
  CASE c = Quote     -> Quote
    [] c = Backslash -> Backslash
    [] c = "/"       -> "/"
    [] c = "n"       -> "\n"
    [] c = "r"       -> "\r"
    [] c = "t"       -> "\t"
    [] OTHER         -> ""

\* the characters of a string after its opening quote (strict: no raw control character)
RECURSIVE scan_string(_, _, _)
scan_string(s, i, acc) ==
  IF i > Len(s) THEN ParseFail
  ELSE IF s[i] = Quote THEN Parsed(acc, i + 1)
  ELSE IF s[i] = Backslash
       THEN IF i + 1 > Len(s) \/ unescape_char(s[i + 1]) = "" THEN ParseFail
            ELSE scan_string(s, i + 2, Append(acc, unescape_char(s[i + 1])))
  ELSE IF s[i] \in {"\n", "\r", "\t"} THEN ParseFail
  ELSE scan_string(s, i + 1, Append(acc, s[i]))

match_at(s, i, word) ==
  i + Len(word) - 1 <= Len(s) /\ SubSeq(s, i, i + Len(word) - 1) = word

string_value(r) == IF r.ok THEN Parsed(JStr(r.val), r.pos) ELSE ParseFail

RECURSIVE scan_value(_, _)
RECURSIVE scan_array(_, _, _)
RECURSIVE array_item(_, _, _)
RECURSIVE array_next(_, _, _)
RECURSIVE scan_object(_, _, _)
RECURSIVE object_key(_, _, _)
RECURSIVE object_colon(_, _, _, _)
RECURSIVE object_value_at(_, _, _, _)
RECURSIVE object_value(_, _, _, _)
RECURSIVE object_next(_, _, _)

\* the items of an array, i at the start of the next item
scan_array(s, i, items) ==
  IF i > Len(s) THEN ParseFail ELSE array_item(s, scan_value(s, i), items)

\* v is the item just read
array_item(s, v, items) ==
  IF ~v.ok THEN ParseFail
  ELSE array_next(s, skip_whitespace(s, v.pos), Append(items, v.val))

\* j at the "," or "]" after an item
array_next(s, j, items) ==
  IF j > Len(s) THEN ParseFail
  ELSE IF s[j] = "]" THEN Parsed(JList(items), j + 1)
  ELSE IF s[j] = "," THEN scan_array(s, skip_whitespace(s, j + 1), items)
  ELSE ParseFail

\* the pairs of an object, i at the opening quote of the next key
scan_object(s, i, d) ==
  IF i > Len(s) \/ s[i] # Quote THEN ParseFail
  ELSE object_key(s, scan_string(s, i + 1, <<>>), d)

\* key is the key just read
object_key(s, key, d) ==
  IF ~key.ok THEN ParseFail
  ELSE object_colon(s, key.val, skip_whitespace(s, key.pos), d)

\* c at the ":" after the key k
object_colon(s, k, c, d) ==
  IF c > Len(s) \/ s[c] # ":" THEN ParseFail
  ELSE object_value_at(s, k, skip_whitespace(s, c + 1), d)

object_value_at(s, k, i, d) ==
  IF i > Len(s) THEN ParseFail ELSE object_value(s, k, scan_value(s, i), d)

\* v is the value just read for the key k
object_value(s, k, v, d) ==
  IF ~v.ok THEN ParseFail
  ELSE object_next(s, skip_whitespace(s, v.pos), dict_set(d, k, v.val))

\* j at the "," or "}" after a pair
object_next(s, j, d) ==
  IF j > Len(s) THEN ParseFail
  ELSE IF s[j] = "}" THEN Parsed(d, j + 1)
  ELSE IF s[j] = "," THEN scan_object(s, skip_whitespace(s, j + 1), d)
  ELSE ParseFail

\* j after the "[" and the whitespace that follows it
array_open(s, j) ==
  IF j <= Len(s) /\ s[j] = "]" THEN Parsed(JList(<<>>), j + 1)
  ELSE scan_array(s, j, <<>>)

\* j after the "{" and the whitespace that follows it
object_open(s, j) ==
  IF j <= Len(s) /\ s[j] = "}" THEN Parsed(JDict(<<>>, <<>>), j + 1)
  ELSE scan_object(s, j, JDict(<<>>, <<>>))

scan_value(s, i) ==
  CASE s[i] = Quote -> string_value(scan_string(s, i + 1, <<>>))
    [] s[i] = "{" -> object_open(s, skip_whitespace(s, i + 1))
    [] s[i] = "[" -> array_open(s, skip_whitespace(s, i + 1))
    [] s[i] = "n" ->
         IF match_at(s, i, <<"n","u","l","l">>) THEN Parsed(JNull, i + 4) ELSE ParseFail
    [] s[i] = "t" ->
         IF match_at(s, i, <<"t","r","u","e">>) THEN Parsed(JBool(TRUE), i + 4)
         ELSE ParseFail
    [] s[i] = "f" ->
         IF match_at(s, i, <<"f","a","l","s","e">>) THEN Parsed(JBool(FALSE), i + 5)
         ELSE ParseFail
    [] s[i] = "-" \/ is_digit(s[i]) -> scan_number(s, i)
    [] OTHER -> ParseFail

\* r is the value read: nothing but whitespace may follow it
loads_end(s, r) ==
  IF r.ok /\ skip_whitespace(s, r.pos) > Len(s) THEN r ELSE ParseFail

loads_at(s, i) ==
  IF i > Len(s) THEN ParseFail ELSE loads_end(s, scan_value(s, i))

json_loads(s) == loads_at(s, skip_whitespace(s, 1))

(***************************************************************************)
(* analyze_json_structure.  The analysis is itself a dict that json.dump   *)
(* writes, so it is built as a JSON value.  list(set(...)) lists the       *)
(* distinct type names in the set's iteration order, which the str hash    *)
(* seed of the run decides: hash_order is that order over all type names.  *)
(***************************************************************************)
TypeNames == <<<<"d","i","c","t">>, <<"l","i","s","t">>, <<"s","t","r">>, <<"i","n","t">>, <<"b","o","o","l">>, <<"N","o","n","e","T","y","p","e">>>>

type_name(v) ==
  CASE v.k = "dict"     -> <<"d","i","c","t">>
    [] v.k = "list"     -> <<"l","i","s","t">>
    [] v.k = "str"      -> <<"s","t","r">>
    [] v.k = "int"      -> <<"i","n","t">>
    [] v.k = "bool"     -> <<"b","o","o","l">>
    [] v.k = "NoneType" -> <<"N","o","n","e","T","y","p","e">>

\* str(data) of a scalar
str_of(v) ==
  CASE v.k = "NoneType" -> <<"N","o","n","e">>
    [] v.k = "bool"     -> IF v.b THEN <<"T","r","u","e">> ELSE <<"F","a","l","s","e">>
    [] v.k = "int"      -> int_to_str(v.n)
    [] v.k = "str"      -> v.s

PreviewLen == 50

preview(s) ==
  IF Len(s) > PreviewLen THEN SubSeq(s, 1, PreviewLen) \o <<".",".",".">> ELSE s

is_item_type(items, name) == \E i \in 1..Len(items) : type_name(items[i]) = name

RECURSIVE item_types(_, _, _)
item_types(items, hash_order, i) ==
  IF i > Len(hash_order) THEN <<>>
  ELSE (IF is_item_type(items, hash_order[i]) THEN <<JStr(hash_order[i])>> ELSE <<>>)
       \o item_types(items, hash_order, i + 1)

RECURSIVE analyze_json_structure(_, _)
analyze_json_structure(data, hash_order) ==
  CASE data.k = "dict" ->
         JDict(<<<<"t","y","p","e">>, <<"k","e","y","s">>, <<"k","e","y","_","n","a","m","e","s">>, <<"n","e","s","t","e","d","_","s","t","r","u","c","t","u","r","e">>>>,
               <<JStr(<<"o","b","j","e","c","t">>),
                 JInt(Len(data.keys)),
                 JList([i \in 1..Len(data.keys) |-> JStr(data.keys[i])]),
                 JDict(data.keys,
                       [i \in 1..Len(data.keys) |->
                          analyze_json_structure(data.vals[i], hash_order)])>>)
    [] data.k = "list" ->
         JDict(<<<<"t","y","p","e">>, <<"l","e","n","g","t","h">>, <<"i","t","e","m","_","t","y","p","e","s">>>>,
               <<JStr(<<"a","r","r","a","y">>),
                 JInt(Len(data.items)),
                 JList(item_types(data.items, hash_order, 1))>>)
    [] OTHER ->
         JDict(<<<<"t","y","p","e">>, <<"v","a","l","u","e">>>>,
               <<JStr(type_name(data)), JStr(preview(str_of(data)))>>)

\* the analysis stored in the data field
enhanced_json_with_analysis_as_data(filename, data, analysis, now) ==
  JDict(<<<<"_","m","e","t","a","d","a","t","a">>, <<"d","a","t","a">>>>,
        <<JDict(<<<<"o","r","i","g","i","n","a","l","_","f","i","l","e">>, <<"p","r","o","c","e","s","s","e","d","_","a","t">>, <<"a","n","a","l","y","s","i","s">>>>,
                <<JStr(filename), JStr(isoformat(now)), analysis>>),
          analysis>>)

enhanced_json(filename, data, analysis, now) ==
  JDict(<<<<"_","m","e","t","a","d","a","t","a">>, <<"d","a","t","a">>>>,
        <<JDict(<<<<"o","r","i","g","i","n","a","l","_","f","i","l","e">>, <<"p","r","o","c","e","s","s","e","d","_","a","t">>, <<"a","n","a","l","y","s","i","s">>>>,
                <<JStr(filename), JStr(isoformat(now)), analysis>>),
          data>>)

\* the output named with the input's own extension
write_json_file_keeping_extension(original_filename, data, suffix, writable) ==
  written_as(path_stem(original_filename) \o suffix \o path_suffix(original_filename),
             json_dump(data), writable)

write_json_file(original_filename, data, suffix, writable) ==
  written_as(path_stem(original_filename) \o suffix \o <<".","j","s","o","n">>,
             json_dump(data), writable)

json_output(f, writable, now, data, analysis) ==
  returned(analysis,
           write_json_file(f.filename,
                           enhanced_json(f.filename, data, analysis, now),
                           <<"_","e","n","h","a","n","c","e","d">>, writable))

\* loaded is what json.load returned or raised
json_loaded(f, writable, now, hash_order, loaded) ==
  IF ~loaded.ok THEN Raise("JSONDecodeError")
  ELSE json_output(f, writable, now, loaded.val,
                   analyze_json_structure(loaded.val, hash_order))

process_json_file(f, writable, now, hash_order) ==
  IF read_error(f) # "" THEN Raise(read_error(f))
  ELSE json_loaded(f, writable, now, hash_order, json_loads(f.content))

(***************************************************************************)
(* process_file.  supported_extensions maps an extension to its processor. *)
(***************************************************************************)
ExtTxt == <<".","t","x","t">>
ExtJson == <<".","j","s","o","n">>
ExtCsv == <<".","c","s","v">>
ExtPy == <<".","p","y">>
ExtMd == <<".","m","d">>

supported_extensions == {ExtTxt, ExtJson, ExtCsv, ExtPy, ExtMd}

\* the extension process_file continues with: '.txt' for one that is not supported
registered(extension) ==
  IF extension \notin supported_extensions THEN ExtTxt ELSE extension

resolve_extension(filename) == registered(lower(path_suffix(filename)))

processor(extension, f, writable, now, hash_order) ==
  CASE extension = ExtTxt  -> process_text_file(f, writable, now)
    [] extension = ExtJson -> process_json_file(f, writable, now, hash_order)
    [] extension = ExtCsv  -> process_csv_file(f, writable, now)
    [] extension = ExtPy   -> process_python_file(f, writable, now)
    [] extension = ExtMd   -> process_markdown_file(f, writable, now)

history_entry(filename, extension, now) ==
  [filename |-> filename,
   extension |-> extension,
   processed_at |-> isoformat(now),
   success |-> TRUE]

\* r is what the processor returned or raised: a history entry is made when it returned
tracked(filename, extension, now, r) ==
  [raised |-> r.raised, value |-> r.value, wrote |-> r.wrote,
   entry |-> IF r.raised = "" THEN history_entry(filename, extension, now) ELSE None]

dispatch(extension, f, writable, now, hash_order) ==
  tracked(f.filename, extension, now,
          processor(extension, f, writable, now, hash_order))

\* the body of the try block: what it raised, and what it did before
process_file_try(f, writable, now, hash_order) ==
  IF f.status = "missing"
  THEN [raised |-> "FileNotFoundError", value |-> None, wrote |-> None, entry |-> None]
  ELSE IF f.status = "directory"
  THEN [raised |-> "IsADirectoryError", value |-> None, wrote |-> None, entry |-> None]
  ELSE dispatch(resolve_extension(f.filename), f, writable, now, hash_order)

\* the named except clauses alone, without the closing `except Exception`
is_caught_when_named(e) ==
  e \in {"FileNotFoundError", "PermissionError", "UnicodeDecodeError",
         "JSONDecodeError", "csv.Error"}

\* the except clauses: each returns None; the last one is `except Exception`
is_caught(e) == e \in Exceptions

disk_write(d, w) ==
  IF w = None THEN d
  ELSE [n \in DOMAIN d \cup {w.name} |-> IF n = w.name THEN w.content ELSE d[n]]

\* the entry appended only for a call that wrote its output file
track_processed_when_written(history, t) ==
  IF t.raised = "" /\ t.wrote # None THEN Append(history, t.entry) ELSE history

\* the entry put at the front of the history
track_processed_at_front(history, t) ==
  IF t.raised = "" THEN <<t.entry>> \o history ELSE history

\* an entry of success False appended for a call that failed
track_processed_with_failures(history, t) ==
  IF t.raised = "" THEN Append(history, t.entry)
  ELSE Append(history, [filename |-> <<>>, extension |-> <<>>,
                        processed_at |-> <<>>, success |-> FALSE])

\* self.processed_files.append({...}), reached only when the processor returned
track_processed(history, t) ==
  IF t.raised = "" THEN Append(history, t.entry) ELSE history

\* The state after a call whose try block ended as t.  call records the call just
\* made: its arguments, what the try block raised, what escaped process_file, the
\* output file it wrote, the history it started from and what the call before raised
ProcessFileEnds(f, writable, t) ==
  /\ processed_files' = track_processed(processed_files, t)
  /\ disk' = disk_write(disk, t.wrote)
  /\ result' = IF t.raised = "" THEN t.value ELSE None
  /\ clock' = clock + 1
  /\ call' = [op |-> "process_file", file |-> f, writable |-> writable,
              raised |-> t.raised,
              escaped |-> IF t.raised = "" \/ is_caught(t.raised) THEN "" ELSE t.raised,
              wrote |-> IF t.wrote = None THEN None ELSE t.wrote.name,
              before |-> processed_files, previous |-> call.raised]
  /\ UNCHANGED report

ProcessFile(f, writable, hash_order) ==
  ProcessFileEnds(f, writable, process_file_try(f, writable, clock + 1, hash_order))

(***************************************************************************)
(* generate_summary_report.                                                *)
(***************************************************************************)
\* the report over the history without its first entry
summary_report_skipping_first(history, now) ==
  [name |-> <<"p","r","o","c","e","s","s","i","n","g","_","s","u","m","m","a","r","y","_">> \o isoformat(now) \o <<".","t","x","t">>,
   generated |-> isoformat(now),
   total_files_processed |-> Len(history),
   blocks |-> [i \in 1..(Len(history) - 1) |->
                 [number |-> i,
                  filename |-> history[i + 1].filename,
                  type |-> history[i + 1].extension,
                  processed |-> history[i + 1].processed_at,
                  status |-> IF history[i + 1].success THEN "Success" ELSE "Failed"]]]

summary_report(history, now) ==
  [name |-> <<"p","r","o","c","e","s","s","i","n","g","_","s","u","m","m","a","r","y","_">> \o isoformat(now) \o <<".","t","x","t">>,
   generated |-> isoformat(now),
   total_files_processed |-> Len(history),
   blocks |-> [i \in 1..Len(history) |->
                 [number |-> i,
                  filename |-> history[i].filename,
                  type |-> history[i].extension,
                  processed |-> history[i].processed_at,
                  status |-> IF history[i].success THEN "Success" ELSE "Failed"]]]

GenerateSummaryReport(writable) ==
  /\ report' = IF processed_files # <<>> /\ writable
               THEN summary_report(processed_files, clock + 1)
               ELSE report
  /\ clock' = clock + 1
  /\ call' = [op |-> "generate_summary_report", file |-> None, writable |-> writable,
              raised |-> "", escaped |-> "", wrote |-> None,
              before |-> processed_files, previous |-> call.raised]
  /\ UNCHANGED <<processed_files, disk, result>>

(***************************************************************************)
(* The files a caller can name.  status: "ok", or why the file cannot be   *)
(* processed ("missing", "directory") or read ("unreadable",               *)
(* "undecodable", "ioerror").                                              *)
(***************************************************************************)
File(filename, status, content) ==
  [filename |-> filename, status |-> status, content |-> content]

BoundedSeq(alphabet, n) == UNION {[1..k -> alphabet] : k \in 0..n}

\* one session: a file of every type, and one of every failure kind
SessionFiles ==
  {File(<<"a",".","t","x","t">>, "ok", <<"a"," ","b","\n","c","\n">>),
   File(<<"n",".","x","y","z">>, "ok", <<"a"," ","b">>),
   File(<<"N",".","T","X","T">>, "ok", <<>>),
   File(<<"d",".","j","s","o","n">>, "ok", <<"{","\"","a","\"",":"," ","[","1",","," ","\"","x","\"","]","}">>),
   File(<<"d",".","j","s","o","n">>, "ok", <<"{","\"","a","\"">>),
   File(<<"t",".","c","s","v">>, "ok", <<"a",",","b","\n","1",",","2","\n","3">>),
   File(<<"t",".","c","s","v">>, "ok", <<>>),
   File(<<"m",".","p","y">>, "ok", <<"#"," ","c","\n","i","m","p","o","r","t"," ","x","\n","\n","d","e","f"," ","f">>),
   File(<<"m",".","p","y">>, "ok", <<>>),
   File(<<"r",".","m","d">>, "ok", <<"#"," ","T","\n"," ","#","#"," ","U">>),
   File(<<"g","o","n","e",".","t","x","t">>, "missing", <<>>),
   File(<<"s","u","b">>, "directory", <<>>),
   File(<<"a",".","t","x","t">>, "unreadable", <<>>),
   File(<<"a",".","t","x","t">>, "undecodable", <<>>),
   File(<<"a",".","t","x","t">>, "ioerror", <<>>)}

HashOrders == {TypeNames, [i \in 1..Len(TypeNames) |-> TypeNames[Len(TypeNames) + 1 - i]]}

(***************************************************************************)
(* The session: any calls of process_file and generate_summary_report on   *)
(* one FileProcessor.                                                      *)
(***************************************************************************)
Init ==
  /\ processed_files = <<>>
  /\ disk = <<>>
  /\ result = None
  /\ report = None
  /\ clock = 0
  /\ call = [op |-> "__init__", file |-> None, writable |-> TRUE,
             raised |-> "", escaped |-> "", wrote |-> None, before |-> <<>>,
             previous |-> ""]

Next ==
  \/ /\ clock < MaxCalls
     /\ \E f \in SessionFiles, writable \in BOOLEAN, hash_order \in HashOrders :
          ProcessFile(f, writable, hash_order)
  \/ /\ clock < MaxCalls
     /\ \E writable \in BOOLEAN : GenerateSummaryReport(writable)

Spec == Init /\ [][Next]_vars

(***************************************************************************)
(* The first call of a new FileProcessor, on every CSV file up to a        *)
(* length.                                                                 *)
(***************************************************************************)
CsvFiles ==
  {File(<<"t",".","c","s","v">>, "ok", c) : c \in BoundedSeq({"a", " ", ",", "\n"}, MaxCsvLen)}

NextCsv ==
  /\ clock = 0
  /\ \E f \in CsvFiles, writable \in BOOLEAN : ProcessFile(f, writable, TypeNames)

SpecCsv == Init /\ [][NextCsv]_vars

(***************************************************************************)
(* The first call of a new FileProcessor, on every Markdown file up to a   *)
(* length.                                                                 *)
(***************************************************************************)
MdFiles ==
  {File(<<"r",".","m","d">>, "ok", c) : c \in BoundedSeq({"#", " ", "T", "\n"}, MaxMdLen)}

NextMarkdown ==
  /\ clock = 0
  /\ \E f \in MdFiles, writable \in BOOLEAN : ProcessFile(f, writable, TypeNames)

SpecMarkdown == Init /\ [][NextMarkdown]_vars

(***************************************************************************)
(* The first call of a new FileProcessor, on JSON files: every value of    *)
(* two levels of nesting over the leaves, as json.dump writes it, and      *)
(* texts in other layouts, some of them malformed.                         *)
(***************************************************************************)
JsonLeaves ==
  {JNull, JBool(TRUE), JBool(FALSE), JInt(0 - 1), JInt(10),
   JStr(<<"a">>), JStr(<<Quote, Backslash, "\n">>)}

JsonKeys == {<<"a">>, <<Quote>>}

KeySeqs(n) ==
  {ks \in BoundedSeq(JsonKeys, n) : \A i, j \in 1..Len(ks) : i # j => ks[i] # ks[j]}

Lists(values, n) == {JList(items) : items \in BoundedSeq(values, n)}

Dicts(values, n) ==
  UNION {{JDict(ks, vs) : vs \in [1..Len(ks) -> values]} : ks \in KeySeqs(n)}

JsonLevel1 ==
  JsonLeaves \cup Lists(JsonLeaves, MaxJsonWidth) \cup Dicts(JsonLeaves, MaxJsonWidth)

JsonValues == JsonLevel1 \cup Lists(JsonLevel1, 1) \cup Dicts(JsonLevel1, 1)

JsonTexts ==
  {<<"{","\"","a","\"",":","1",",","\"","a","\"",":","[","t","r","u","e",",","n","u","l","l","]","}">>, <<" ","["," ","1"," ",","," ","\"","\\","/","\""," ","]","\n">>, <<"-","0">>,
   <<>>, <<"{","\"","a","\"">>, <<"[","1",",","]">>, <<"{","\"","a","\"",":","1",",","}">>, <<"n","u","l">>, <<"1"," ","2">>, <<"\"","a">>, <<"0","1">>, <<"{","a",":","1","}">>, <<"\"","\\","x","\"">>}

JsonFiles ==
  {File(<<"d",".","j","s","o","n">>, "ok", json_dump(v)) : v \in JsonValues}
    \cup {File(<<"d",".","J","S","O","N">>, "ok", c) : c \in JsonTexts}

NextJson ==
  /\ clock = 0
  /\ \E f \in JsonFiles, writable \in BOOLEAN, hash_order \in HashOrders :
       ProcessFile(f, writable, hash_order)

SpecJson == Init /\ [][NextJson]_vars

(***************************************************************************)
(* The first call of a new FileProcessor, on files of every spelling of    *)
(* the name: stems with a dot, a directory or nothing in them, extensions  *)
(* in either case, unregistered or absent.  The content [1] is JSON, a CSV *)
(* header row, a line of Python and a line of Markdown; the empty content  *)
(* is none of the first three.                                             *)
(***************************************************************************)
NameStems == {<<"D","A","T","A">>, <<"a",".","b">>, <<>>, <<"d","/","a">>}

NameExtensions ==
  {<<".","t","x","t">>, <<".","T","X","T">>, <<".","j","s","o","n">>, <<".","J","S","O","N">>, <<".","c","s","v">>, <<".","C","s","v">>, <<".","p","y">>, <<".","P","Y">>, <<".","m","d">>, <<".","M","D">>,
   <<".","x","y","z">>, <<".">>, <<>>}

NamedFiles ==
  {File(stem \o ext, "ok", c) :
     stem \in NameStems, ext \in NameExtensions, c \in {<<"[","1","]">>, <<>>}}

NextNames ==
  /\ clock = 0
  /\ \E f \in NamedFiles, writable \in BOOLEAN : ProcessFile(f, writable, TypeNames)

SpecNames == Init /\ [][NextNames]_vars

(***************************************************************************)
(* The first call of a new FileProcessor, on every source file made of up  *)
(* to a number of the pieces a line is classified by.                      *)
(***************************************************************************)
PyTokens == {<<"i","m","p","o","r","t"," ","x">>, FromKw, Hash, <<" ">>, <<"x">>, <<"\n">>}

RECURSIVE concat(_)
concat(pieces) ==
  IF pieces = <<>> THEN <<>> ELSE Head(pieces) \o concat(Tail(pieces))

PyFiles ==
  {File(<<"m",".","p","y">>, "ok", concat(pieces)) : pieces \in BoundedSeq(PyTokens, MaxPyTokens)}

NextPython ==
  /\ clock = 0
  /\ \E f \in PyFiles, writable \in BOOLEAN : ProcessFile(f, writable, TypeNames)

SpecPython == Init /\ [][NextPython]_vars

(***************************************************************************)
(* What the claims speak of.                                               *)
(***************************************************************************)
IsPrefix(a, b) == Len(a) <= Len(b) /\ SubSeq(b, 1, Len(a)) = a

LastEntry == processed_files[Len(processed_files)]

Extension(f) == lower(path_suffix(f.filename))

HasHeaderRow(content) ==
  splitlines(content) # <<>> /\ Head(splitlines(content)) # <<>>

\* the analysis of the file fails: JSON that does not parse, a CSV with no header row
AnalysisFails(f) ==
  /\ f.status = "ok"
  /\ \/ Extension(f) = ExtJson /\ ~json_loads(f.content).ok
     \/ Extension(f) = ExtCsv /\ ~HasHeaderRow(f.content)

\* a file of no failure kind: it can be read, its analysis does not fail, and it is
\* not the source file of 0 lines, which ends in the unexpected error of C6
Processable(f) ==
  /\ f.status = "ok"
  /\ ~AnalysisFails(f)
  /\ ~(Extension(f) = ExtPy /\ splitlines(f.content) = <<>>)

Processed == call.op = "process_file"

\* C1: a file whose lowercased extension is not registered is processed by the
\* plain-text analyzer and renderer, and the history entry appended for it records
\* the file's own extension, not ".txt".
C1_UnknownExtensionRecorded ==
  (Processed /\ call.file.status = "ok"
     /\ Extension(call.file) \notin supported_extensions) =>
    /\ result # None
    /\ result.analysis = text_analysis(call.file.content)
    /\ processed_files = Append(call.before, LastEntry)
    /\ LastEntry.extension \in {path_suffix(call.file.filename), Extension(call.file)}

\* C2: the history grows only at its end: every step leaves the history it found as
\* a prefix of the new one; a process_file call that returns a result appends
\* exactly one entry, for its file, and every other call leaves the history as it is.
C2_HistoryAppendOnly ==
  [][/\ IsPrefix(processed_files, processed_files')
     /\ (call'.op = "process_file" /\ result' # None) =>
          /\ Len(processed_files') = Len(processed_files) + 1
          /\ processed_files'[Len(processed_files')].filename = call'.file.filename
          /\ processed_files'[Len(processed_files')].processed_at = isoformat(clock')
     /\ (call'.op # "process_file" \/ result' = None) =>
          processed_files' = processed_files]_vars

C2_Witness ==
  /\ call.op = "generate_summary_report"
  /\ report # None
  /\ Len(processed_files) = 2
  /\ processed_files[1].filename # processed_files[2].filename

\* C3: when a file is processable and the write of its output fails, process_file
\* still appends the history entry of the file and returns a result whose
\* output_file is None.
C3_WriteFailureStillRecorded ==
  (Processed /\ Processable(call.file) /\ ~call.writable) =>
    /\ result # None
    /\ result.output_file = None
    /\ call.wrote = None
    /\ Len(processed_files) = Len(call.before) + 1
    /\ IsPrefix(call.before, processed_files)
    /\ LastEntry # None
    /\ LastEntry.filename = call.file.filename

C3_Witness ==
  /\ Processed /\ Processable(call.file) /\ ~call.writable
  /\ Extension(call.file) = ExtCsv
  /\ result # None
  /\ Len(processed_files) = 2

\* C4: a call on a file of any failure kind returns None, lets no exception out of
\* process_file and leaves the history as it was; and the call that follows a
\* failed call, on a processable file, returns a result and appends its entry.
C4_FailuresAreFileScoped ==
  /\ (Processed /\ ~Processable(call.file)) =>
       /\ result = None
       /\ call.raised # ""
       /\ call.escaped = ""
       /\ processed_files = call.before
  /\ (Processed /\ Processable(call.file) /\ call.previous # "") =>
       /\ result # None
       /\ call.escaped = ""
       /\ Len(processed_files) = Len(call.before) + 1
       /\ LastEntry.filename = call.file.filename

C4_Witness ==
  /\ Processed /\ Processable(call.file)
  /\ call.previous = "IsADirectoryError"
  /\ result # None
  /\ Len(processed_files) = 1

\* C5: when the analysis of a file fails, the call returns None to its caller and
\* writes no output file: the disk is left as it was.
C5_FailedAnalysisWritesNothing ==
  [][(call'.op = "process_file" /\ AnalysisFails(call'.file)) =>
       /\ result' = None
       /\ disk' = disk
       /\ call'.raised \in {"JSONDecodeError", "csv.Error"}]_vars

C5_Witness ==
  /\ Processed /\ AnalysisFails(call.file)
  /\ Extension(call.file) = ExtCsv
  /\ call.writable
  /\ result = None
  /\ Len(processed_files) = 1

\* C6: a source file of 0 lines is processed with success, and the documentation
\* block written for it shows a comment ratio of 0% and a code density of 0%.
C6_EmptySourceFileSucceeds ==
  (Processed /\ call.file.status = "ok" /\ Extension(call.file) = ExtPy
     /\ splitlines(call.file.content) = <<>>) =>
    /\ call.raised = ""
    /\ result # None
    /\ call.writable =>
         /\ call.wrote # None
         /\ disk[call.wrote].comment_ratio = 0
         /\ disk[call.wrote].code_density = 0

\* C7: for a CSV with a non-empty header row, columns is the number of header
\* cells, rows the number of lines after the header, and total_cells their
\* product, whatever the lengths of the data rows.
C7_CsvTotalCells ==
  (Processed /\ call.file.status = "ok" /\ Extension(call.file) = ExtCsv
     /\ HasHeaderRow(call.file.content)) =>
    LET lines   == splitlines(call.file.content)
        columns == count(Head(lines), <<",">>) + 1
        rows    == Len(lines) - 1
    IN /\ result # None
       /\ result.analysis.columns = columns
       /\ result.analysis.rows = rows
       /\ result.analysis.total_cells = columns * rows

\* a data row with fewer cells than the header
C7_Witness ==
  /\ Processed /\ call.file.status = "ok" /\ Extension(call.file) = ExtCsv
  /\ HasHeaderRow(call.file.content)
  /\ result # None
  /\ result.analysis.columns = 2
  /\ result.analysis.rows = 1
  /\ count(splitlines(call.file.content)[2], <<",">>) = 0
  /\ result.analysis.total_cells = 2

\* the table-of-contents line C8 states for a heading line
StatedTocEntry(line) ==
  LET trimmed == strip(line, Whitespace)
      level   == Len(trimmed) - Len(lstrip(trimmed, {"#"}))
      title   == strip(strip(trimmed, {"#"}), Whitespace)
  IN repeat(<<" "," ">>, level - 1) \o <<"-"," ">> \o title

\* C8: the table of contents has one entry for every line whose trimmed form starts
\* with "#", in document order: the title, with "#" and surrounding whitespace
\* stripped, indented by (level - 1) two-space units, level being the number of
\* leading "#" of the trimmed line; so also for a heading line with leading whitespace.
C8_TocEntryPerHeading ==
  (Processed /\ call.file.status = "ok" /\ Extension(call.file) = ExtMd
     /\ call.writable) =>
    LET headings == SelectSeq(splitlines(call.file.content), is_header_line)
    IN /\ call.wrote # None
       /\ disk[call.wrote].toc = [i \in 1..Len(headings) |-> StatedTocEntry(headings[i])]

\* C9: generate_summary_report leaves the history as it is, and the report it
\* writes gives the length of the history as the total and one block per entry,
\* numbered from 1 in the order of the history, with the filename, type, timestamp
\* and status of that entry.
C9_SummaryIsFold ==
  /\ call.op = "generate_summary_report" => processed_files = call.before
  /\ (call.op = "generate_summary_report" /\ call.writable /\ processed_files # <<>>) =>
       /\ report # None
       /\ report.generated = isoformat(clock)
       /\ report.total_files_processed = Len(processed_files)
       /\ Len(report.blocks) = Len(processed_files)
       /\ \A i \in 1..Len(report.blocks) :
            /\ i <= Len(processed_files)
            /\ report.blocks[i].number = i
            /\ report.blocks[i].filename = processed_files[i].filename
            /\ report.blocks[i].type = processed_files[i].extension
            /\ report.blocks[i].processed = processed_files[i].processed_at
            /\ report.blocks[i].status =
                 (IF processed_files[i].success THEN "Success" ELSE "Failed")

C9_Witness ==
  /\ call.op = "generate_summary_report" /\ call.writable
  /\ Len(processed_files) = 2
  /\ processed_files[1].filename # processed_files[2].filename
  /\ report # None
  /\ Len(report.blocks) = 2

KeySet(d) == {d.keys[i] : i \in 1..Len(d.keys)}

\* written parses to the envelope whose data is the value V
IsEnvelopeOf(written, V) ==
  /\ written.ok
  /\ written.val.k = "dict"
  /\ Len(written.val.keys) = 2
  /\ KeySet(written.val) = {<<"_","m","e","t","a","d","a","t","a">>, <<"d","a","t","a">>}
  /\ dict_get(written.val, <<"_","m","e","t","a","d","a","t","a">>).k = "dict"
  /\ Len(dict_get(written.val, <<"_","m","e","t","a","d","a","t","a">>).keys) = 3
  /\ KeySet(dict_get(written.val, <<"_","m","e","t","a","d","a","t","a">>)) =
       {<<"o","r","i","g","i","n","a","l","_","f","i","l","e">>, <<"p","r","o","c","e","s","s","e","d","_","a","t">>, <<"a","n","a","l","y","s","i","s">>}
  /\ dict_get(written.val, <<"d","a","t","a">>) = V

\* C10: for JSON that parses to a value V, the document written is an object with
\* exactly the fields _metadata and data, _metadata with exactly the fields
\* original_file, processed_at and analysis, and the data field of the parsed
\* output equals V.
C10_JsonDataRoundTrip ==
  (Processed /\ call.file.status = "ok" /\ Extension(call.file) = ExtJson
     /\ json_loads(call.file.content).ok /\ call.writable) =>
    /\ call.wrote # None
    /\ IsEnvelopeOf(json_loads(disk[call.wrote]), json_loads(call.file.content).val)

\* an object that holds a list of two items, with characters that are escaped
C10_Witness ==
  /\ Processed /\ call.file.status = "ok" /\ Extension(call.file) = ExtJson
  /\ call.writable /\ call.wrote # None
  /\ json_loads(call.file.content).ok
  /\ json_loads(call.file.content).val =
       JDict(<<<<Quote>>>>,
             <<JList(<<JStr(<<Quote, Backslash, "\n">>), JInt(0 - 1)>>)>>)
  /\ json_loads(disk[call.wrote]).ok

\* the name the specification gives the output of f: the stem, the suffix of the
\* category, and the extension, fixed for JSON and CSV and the input's own otherwise
StatedOutputName(f) ==
  CASE Extension(f) = ExtJson ->
         path_stem(f.filename) \o <<"_","e","n","h","a","n","c","e","d">> \o <<".","j","s","o","n">>
    [] Extension(f) = ExtCsv ->
         path_stem(f.filename) \o <<"_","e","n","h","a","n","c","e","d">> \o <<".","c","s","v">>
    [] Extension(f) = ExtMd ->
         path_stem(f.filename) \o <<"_","e","n","h","a","n","c","e","d">> \o path_suffix(f.filename)
    [] Extension(f) = ExtPy ->
         path_stem(f.filename) \o <<"_","d","o","c","u","m","e","n","t","e","d">> \o path_suffix(f.filename)
    [] OTHER ->
         path_stem(f.filename) \o <<"_","a","n","a","l","y","z","e","d">> \o path_suffix(f.filename)

\* C11: a call that succeeds and writes its output names it stem + category suffix
\* + extension: _analyzed for plain text and for an unregistered extension,
\* _enhanced for JSON, CSV and Markdown, _documented for source code; text, source
\* and Markdown keep the input's extension as written, JSON and CSV end in .json
\* and .csv whatever the spelling of the input's, so DATA.JSON gives
\* DATA_enhanced.json.
C11_OutputFilenameDerivation ==
  (Processed /\ call.raised = "" /\ call.writable) =>
    /\ result.output_file = StatedOutputName(call.file)
    /\ call.wrote = StatedOutputName(call.file)
    /\ call.file.filename = <<"D","A","T","A",".","J","S","O","N">> => call.wrote = <<"D","A","T","A","_","e","n","h","a","n","c","e","d",".","j","s","o","n">>
    /\ call.file.filename = <<"D","A","T","A",".","C","s","v">> => call.wrote = <<"D","A","T","A","_","e","n","h","a","n","c","e","d",".","c","s","v">>
    /\ call.file.filename = <<"d","/","a",".","P","Y">> => call.wrote = <<"a","_","d","o","c","u","m","e","n","t","e","d",".","P","Y">>
    /\ call.file.filename = <<"a",".","b",".","M","D">> => call.wrote = <<"a",".","b","_","e","n","h","a","n","c","e","d",".","M","D">>
    /\ call.file.filename = <<"D","A","T","A",".","x","y","z">> => call.wrote = <<"D","A","T","A","_","a","n","a","l","y","z","e","d",".","x","y","z">>
    /\ call.file.filename = <<"D","A","T","A">> => call.wrote = <<"D","A","T","A","_","a","n","a","l","y","z","e","d">>

C11_Witness ==
  /\ Processed /\ call.raised = "" /\ call.writable
  /\ call.file.filename = <<"D","A","T","A",".","J","S","O","N">>
  /\ result.output_file = <<"D","A","T","A","_","e","n","h","a","n","c","e","d",".","j","s","o","n">>
  /\ call.wrote \in DOMAIN disk

\* C12: whatever calls were made, failing ones and ones whose output write failed
\* among them, every entry of processed_files has success = True; a process_file
\* call that returns None leaves the history as it found it; and no block of a
\* summary report has the status Failed.
C12_HistoryHoldsSuccessesOnly ==
  /\ \A i \in 1..Len(processed_files) : processed_files[i].success = TRUE
  /\ (Processed /\ result = None) => processed_files = call.before
  /\ report # None =>
       \A i \in 1..Len(report.blocks) : report.blocks[i].status # "Failed"

\* a call whose write failed is in the history, a report was written of it, and
\* the call just made failed
C12_Witness ==
  /\ Processed /\ call.raised # "" /\ result = None
  /\ processed_files # <<>>
  /\ DOMAIN disk = {}
  /\ report # None
  /\ Len(report.blocks) = Len(processed_files)

\* how many of the three classes a line is counted in
classes_of(line) ==
  (IF is_code_line(line) THEN 1 ELSE 0) + (IF is_comment_line(line) THEN 1 ELSE 0)
    + (IF is_blank_line(line) THEN 1 ELSE 0)

\* the analysis a of the lines is a partition of them
IsPartition(a, lines) ==
  /\ \A i \in 1..Len(lines) : classes_of(lines[i]) = 1
  /\ a.total_lines = Len(lines)
  /\ a.code_lines + a.comment_lines + a.blank_lines = a.total_lines
  /\ a.imports <= a.code_lines

\* C13: for every source-code content each line is counted in exactly one of
\* code_lines, comment_lines and blank_lines, so the three add up to total_lines,
\* and imports <= code_lines; the analysis a successful call returns is that one.
C13_LineClassificationPartition ==
  (Processed /\ call.file.status = "ok" /\ Extension(call.file) = ExtPy) =>
    /\ IsPartition(python_analysis(call.file.content), splitlines(call.file.content))
    /\ call.raised = "" =>
         /\ result.analysis = python_analysis(call.file.content)
         /\ IsPartition(result.analysis, splitlines(call.file.content))

\* an import line, a comment line and a blank line
C13_Witness ==
  /\ Processed /\ call.raised = "" /\ Extension(call.file) = ExtPy
  /\ result.analysis.total_lines = 3
  /\ result.analysis.imports = 1
  /\ result.analysis.code_lines = 1
  /\ result.analysis.comment_lines = 1
  /\ result.analysis.blank_lines = 1

====
